---- MODULE Spec2Model ----
(***************************************************************************)
(* scripts/merge_tasks.py: merge tasks/tasks.json.new into tasks/tasks.json *)
(* keeping the status and subtasks of the tasks that already exist, and     *)
(* write the result to tasks/tasks.json.merged.                             *)
(*                                                                          *)
(* A task (a JSON object, a Python dict) is a function from the field names *)
(* it has to their values; a missing field is a name outside its DOMAIN.    *)
(* A raised KeyError is a result [raised |-> <the key>] of the operator     *)
(* that models the expression raising it.                                   *)
(***************************************************************************)
EXTENDS Integers, Sequences, FiniteSets, TLC

VARIABLES pc, existing_tasks, new_tasks, existing_tasks_map, merged_tasks,
          outFile, stdout, err

vars == <<pc, existing_tasks, new_tasks, existing_tasks_map, merged_tasks,
          outFile, stdout, err>>

(* ------------------------------ bounds --------------------------------- *)

\* longest "tasks" array of tasks/tasks.json
MaxOldLen == 2

\* longest "tasks" array of tasks/tasks.json.new
MaxNewLen == 2

(* --------------------------- input universe ---------------------------- *)

Ids == {1, 2}

EmptyDict == [k \in {} |-> k]

\* a field that may be missing: no field at all, or the field with one of vals
Optional(k, vals) == {EmptyDict} \cup {k :> v : v \in vals}

\* the fields besides id a task object of tasks/tasks.json may carry
OldFields ==
    {EmptyDict,
     "status" :> "done",
     ("status" :> "done") @@ ("subtasks" :> <<"1.1">>),
     ("status" :> "review") @@ ("subtasks" :> <<>>)}

\* the task objects tasks/tasks.json may hold
OldTasks ==
    {("id" :> i) @@ f @@ ("title" :> "Old") @@ ("priority" :> "high") :
        i \in Ids, f \in OldFields}
    \cup {("status" :> "done") @@ ("title" :> "Old")}

\* the task objects tasks/tasks.json.new may hold
NewTasks ==
    {("id" :> i) @@ s @@ u @@ ("title" :> "A") :
        i \in Ids,
        s \in Optional("status", {"pending"}),
        u \in Optional("subtasks", {<<"n.1">>})}
    \cup {("status" :> "pending") @@ ("title" :> "A")}

SeqsUpTo(S, n) == UNION {[1..k -> S] : k \in 0..n}

OldCollections == {[tasks |-> ts] : ts \in SeqsUpTo(OldTasks, MaxOldLen)}

NewCollections == {[tasks |-> ts] : ts \in SeqsUpTo(NewTasks, MaxNewLen)}

\* a Python name that no statement has bound yet
Unbound == [tasks |-> <<>>]

\* tasks/tasks.json.merged: absent, or present with the documents written to it
NoFile == [exists |-> FALSE, docs |-> <<>>]

StaleFile == [exists |-> TRUE, docs |-> <<[tasks |-> <<>>]>>]

(* ------------------------------ dicts ---------------------------------- *)

HasKey(d, k) == k \in DOMAIN d

\* d.get(k, default)
Get(d, k, default) == IF k \in DOMAIN d THEN d[k] ELSE default

Ok(v) == [raised |-> "none", value |-> v]

Raise(k) == [raised |-> k, value |-> EmptyDict]

(* ------------------- line 13: existing_tasks_map ----------------------- *)

RECURSIVE TasksById(_)
\* {task['id']: task for task in tasks}: a later task replaces an earlier one
TasksById(tasks) ==
    IF tasks = <<>> THEN EmptyDict
    ELSE LET n == Len(tasks)
         IN  (tasks[n]["id"] :> tasks[n]) @@ TasksById(SubSeq(tasks, 1, n - 1))

RECURSIVE TasksByIdFirstWins(_)
TasksByIdFirstWins(tasks) ==
    IF tasks = <<>> THEN EmptyDict
    ELSE (tasks[1]["id"] :> tasks[1]) @@ TasksByIdFirstWins(Tail(tasks))

\* variant: an earlier task of the same id is kept, a later one ignored
ExistingTasksMap_FirstWins(tasks) ==
    IF \E i \in 1..Len(tasks) : ~HasKey(tasks[i], "id")
    THEN Raise("id")
    ELSE Ok(TasksByIdFirstWins(tasks))

ExistingTasksMap(tasks) ==
    IF \E i \in 1..Len(tasks) : ~HasKey(tasks[i], "id")
    THEN Raise("id")
    ELSE Ok(TasksById(tasks))

(* --------------------- lines 16-25: merged_tasks ----------------------- *)

\* existing_tasks_map.get(new_task['id'], {})
Existing(map, new_task) == Get(map, new_task["id"], EmptyDict)

\* variant: new_task['status'] is read only when the existing task has no status
EntryRaises_LazyStatus(map, new_task) ==
    IF ~HasKey(new_task, "id") THEN "id"
    ELSE IF ~HasKey(new_task, "status") /\ ~HasKey(Existing(map, new_task), "status")
         THEN "status"
    ELSE "none"

\* the KeyError the dict display of lines 18-22 raises for new_task, if any:
\* new_task['id'] is evaluated first, then the argument new_task['status']
EntryRaises(map, new_task) ==
    IF ~HasKey(new_task, "id") THEN "id"
    ELSE IF ~HasKey(new_task, "status") THEN "status"
    ELSE "none"

\* variant: .get('subtasks', []) without the fallback to the new task's subtasks
MergedEntry_SubtasksDefaultEmpty(map, new_task) ==
    ("status" :> Get(Existing(map, new_task), "status", new_task["status"]))
    @@ ("subtasks" :> Get(Existing(map, new_task), "subtasks", <<>>))
    @@ new_task

\* variant: the status of the new task is kept
MergedEntry_StatusFromNew(map, new_task) ==
    ("subtasks" :> Get(Existing(map, new_task), "subtasks",
                       Get(new_task, "subtasks", <<>>)))
    @@ new_task

\* variant: {**existing, **new_task, ...}
MergedEntry_SpreadExisting(map, new_task) ==
    ("status" :> Get(Existing(map, new_task), "status", new_task["status"]))
    @@ ("subtasks" :> Get(Existing(map, new_task), "subtasks",
                          Get(new_task, "subtasks", <<>>)))
    @@ new_task
    @@ Existing(map, new_task)

\* variant: the new task's subtasks are appended to the existing ones
MergedEntry_ConcatSubtasks(map, new_task) ==
    ("status" :> Get(Existing(map, new_task), "status", new_task["status"]))
    @@ ("subtasks" :> Get(Existing(map, new_task), "subtasks", <<>>)
                      \o Get(new_task, "subtasks", <<>>))
    @@ new_task

\* the dict display of lines 18-22
MergedEntry(map, new_task) ==
    ("status" :> Get(Existing(map, new_task), "status", new_task["status"]))
    @@ ("subtasks" :> Get(Existing(map, new_task), "subtasks",
                          Get(new_task, "subtasks", <<>>)))
    @@ new_task

\* variant: ... for new_task in new_tasks['tasks'] if new_task['id'] in existing_tasks_map
MergedTasks_KnownOnly(map, tasks) ==
    LET bad == {i \in 1..Len(tasks) : EntryRaises(map, tasks[i]) # "none"}
        known == SelectSeq(tasks, LAMBDA t : t["id"] \in DOMAIN map)
    IN  IF bad # {}
        THEN Raise(EntryRaises(map, tasks[CHOOSE i \in bad : \A j \in bad : i <= j]))
        ELSE Ok([tasks |-> [i \in 1..Len(known) |-> MergedEntry(map, known[i])]])

RECURSIVE SeqOf(_)
SeqOf(S) == IF S = {} THEN <<>> ELSE LET x == CHOOSE x \in S : TRUE IN <<x>> \o SeqOf(S \ {x})

\* variant: the existing tasks the new file does not name are kept at the end
MergedTasks_KeepExistingOnly(map, tasks) ==
    LET bad == {i \in 1..Len(tasks) : EntryRaises(map, tasks[i]) # "none"}
        kept == SeqOf({map[k] : k \in {k \in DOMAIN map :
                                          \A i \in 1..Len(tasks) : tasks[i]["id"] # k}})
    IN  IF bad # {}
        THEN Raise(EntryRaises(map, tasks[CHOOSE i \in bad : \A j \in bad : i <= j]))
        ELSE Ok([tasks |-> [i \in 1..Len(tasks) |-> MergedEntry(map, tasks[i])] \o kept])

\* variant: a task that raises KeyError is skipped and the merge goes on
MergedTasks_SkipRaising(map, tasks) ==
    LET good == SelectSeq(tasks, LAMBDA t : EntryRaises(map, t) = "none")
    IN  Ok([tasks |-> [i \in 1..Len(good) |-> MergedEntry(map, good[i])]])

\* the list comprehension of lines 17-24; the first KeyError leaves it
MergedTasks(map, tasks) ==
    LET bad == {i \in 1..Len(tasks) : EntryRaises(map, tasks[i]) # "none"}
    IN  IF bad # {}
        THEN Raise(EntryRaises(map, tasks[CHOOSE i \in bad : \A j \in bad : i <= j]))
        ELSE Ok([tasks |-> [i \in 1..Len(tasks) |-> MergedEntry(map, tasks[i])]])

\* merge(old, new) as a whole: lines 13-25
Merge(old, new) ==
    LET m == ExistingTasksMap(old.tasks)
    IN  IF m.raised # "none" THEN Raise(m.raised)
        ELSE MergedTasks(m.value, new.tasks)

(* ------------------------------ actions -------------------------------- *)

Init ==
    /\ pc = "read_existing"
    /\ existing_tasks = Unbound
    /\ new_tasks = Unbound
    /\ existing_tasks_map = EmptyDict
    /\ merged_tasks = Unbound
    /\ outFile \in {NoFile, StaleFile}
    /\ stdout = <<>>
    /\ err = "none"

\* lines 5-6
ReadExisting ==
    /\ pc = "read_existing"
    /\ \E c \in OldCollections : existing_tasks' = c
    /\ pc' = "read_new"
    /\ UNCHANGED <<new_tasks, existing_tasks_map, merged_tasks, outFile, stdout, err>>

\* lines 9-10
ReadNew ==
    /\ pc = "read_new"
    /\ \E c \in NewCollections : new_tasks' = c
    /\ pc' = "build_map"
    /\ UNCHANGED <<existing_tasks, existing_tasks_map, merged_tasks, outFile, stdout, err>>

\* line 13
BuildMap ==
    /\ pc = "build_map"
    /\ LET r == ExistingTasksMap(existing_tasks.tasks)
       IN  IF r.raised = "none"
           THEN /\ existing_tasks_map' = r.value
                /\ pc' = "merge"
                /\ err' = err
           ELSE /\ existing_tasks_map' = existing_tasks_map
                /\ pc' = "failed"
                /\ err' = "KeyError: " \o r.raised
    /\ UNCHANGED <<existing_tasks, new_tasks, merged_tasks, outFile, stdout>>

\* lines 16-25
MergeTasks ==
    /\ pc = "merge"
    /\ LET r == MergedTasks(existing_tasks_map, new_tasks.tasks)
       IN  IF r.raised = "none"
           THEN /\ merged_tasks' = r.value
                /\ pc' = "open_out"
                /\ err' = err
           ELSE /\ merged_tasks' = merged_tasks
                /\ pc' = "failed"
                /\ err' = "KeyError: " \o r.raised
    /\ UNCHANGED <<existing_tasks, new_tasks, existing_tasks_map, outFile, stdout>>

\* line 28: open(..., 'w') creates the file or truncates it
OpenOutput ==
    /\ pc = "open_out"
    /\ outFile' = [exists |-> TRUE, docs |-> <<>>]
    /\ pc' = "dump"
    /\ UNCHANGED <<existing_tasks, new_tasks, existing_tasks_map, merged_tasks, stdout, err>>

\* line 29
Dump ==
    /\ pc = "dump"
    /\ outFile' = [outFile EXCEPT !.docs = Append(@, merged_tasks)]
    /\ pc' = "print"
    /\ UNCHANGED <<existing_tasks, new_tasks, existing_tasks_map, merged_tasks, stdout, err>>

\* line 31
PrintSuccess ==
    /\ pc = "print"
    /\ stdout' = Append(stdout, "Tasks merged successfully!")
    /\ pc' = "done"
    /\ UNCHANGED <<existing_tasks, new_tasks, existing_tasks_map, merged_tasks, outFile, err>>

Next ==
    \/ ReadExisting
    \/ ReadNew
    \/ BuildMap
    \/ MergeTasks
    \/ OpenOutput
    \/ Dump
    \/ PrintSuccess

Spec == Init /\ [][Next]_vars

(* ----------------------------- properties ------------------------------ *)

old == existing_tasks.tasks

new == new_tasks.tasks

out == merged_tasks.tasks

\* both inputs are loaded
Loaded == pc \notin {"read_existing", "read_new"}

\* lines 16-25 have completed: merged_tasks is bound
Merged == pc \in {"open_out", "dump", "print", "done"}

\* the positions of the old tasks whose id is id
OldWith(id) == {j \in 1..Len(old) : old[j]["id"] = id}

\* the last old task whose id is id
LastOld(id) == old[CHOOSE j \in OldWith(id) : \A k \in OldWith(id) : k <= j]

UniqueIds(tasks) ==
    \A i, j \in 1..Len(tasks) : tasks[i]["id"] = tasks[j]["id"] => i = j

NewIds == {new[k]["id"] : k \in 1..Len(new)}

Remove(s, j) == SubSeq(s, 1, j - 1) \o SubSeq(s, j + 1, Len(s))

\* C1 as stated: a new task whose id is in the old collection gets the old
\* task's subtasks, and the empty sequence when the old task has no subtasks,
\* whatever the new task carries; a new task whose id is not in the old
\* collection gets its own subtasks, or the empty sequence.
C1_AsClaimed ==
    (Merged /\ UniqueIds(old)) =>
        \A i \in 1..Len(new) :
            /\ \A j \in OldWith(new[i]["id"]) :
                   out[i]["subtasks"] = Get(old[j], "subtasks", <<>>)
            /\ OldWith(new[i]["id"]) = {} =>
                   out[i]["subtasks"] = Get(new[i], "subtasks", <<>>)

\* C1 amended: the merged subtasks is the subtasks of the old task of that id
\* (the last one, if several) when there is one and it has the field; in every
\* other case (no old task of that id, or one without subtasks) it is the new
\* task's subtasks if present, else the empty sequence.
C1_Subtasks ==
    Merged =>
        \A i \in 1..Len(new) :
            out[i]["subtasks"] =
                IF OldWith(new[i]["id"]) # {} /\ HasKey(LastOld(new[i]["id"]), "subtasks")
                THEN LastOld(new[i]["id"])["subtasks"]
                ELSE Get(new[i], "subtasks", <<>>)

\* an old task without subtasks meets a new task of its id that has subtasks
C1_Witness ==
    /\ pc = "done"
    /\ \E i \in 1..Len(new) :
           /\ OldWith(new[i]["id"]) # {}
           /\ ~HasKey(LastOld(new[i]["id"]), "subtasks")
           /\ HasKey(new[i], "subtasks")
           /\ out[i]["subtasks"] # <<>>

\* C2: a new task whose id is in the old collection gets the status of the old
\* task of that id (old tasks carry a status, as the data model says; the last
\* one of that id, if several); a new task whose id is not in the old
\* collection keeps its own status.
C2_Status ==
    Merged =>
        \A i \in 1..Len(new) :
            /\ (OldWith(new[i]["id"]) # {} /\ HasKey(LastOld(new[i]["id"]), "status")) =>
                   out[i]["status"] = LastOld(new[i]["id"])["status"]
            /\ OldWith(new[i]["id"]) = {} => out[i]["status"] = new[i]["status"]

\* one new task takes a differing status from its old task, another keeps its own
C2_Witness ==
    /\ pc = "done"
    /\ \E i, k \in 1..Len(new) :
           /\ OldWith(new[i]["id"]) # {}
           /\ HasKey(LastOld(new[i]["id"]), "status")
           /\ LastOld(new[i]["id"])["status"] # new[i]["status"]
           /\ out[i]["status"] = "done"
           /\ OldWith(new[k]["id"]) = {}
           /\ out[k]["status"] = "pending"

\* C3 as stated: a new task with no old task of its id is copied unchanged,
\* with the same fields and values, nothing added or removed.
C3_AsClaimed ==
    Merged =>
        \A i \in 1..Len(new) : OldWith(new[i]["id"]) = {} => out[i] = new[i]

\* C3 amended: a new task with no old task of its id is copied with the same
\* fields and values, except that when it has no subtasks field the merged
\* entry gets subtasks = the empty sequence.
C3_NewOnly ==
    Merged =>
        \A i \in 1..Len(new) :
            OldWith(new[i]["id"]) = {} =>
                /\ DOMAIN out[i] = DOMAIN new[i] \cup {"subtasks"}
                /\ \A k \in DOMAIN new[i] : out[i][k] = new[i][k]
                /\ ~HasKey(new[i], "subtasks") => out[i]["subtasks"] = <<>>

\* a new-only task without subtasks, and a new-only task with subtasks
C3_Witness ==
    /\ pc = "done"
    /\ \E i, k \in 1..Len(new) :
           /\ OldWith(new[i]["id"]) = {}
           /\ ~HasKey(new[i], "subtasks")
           /\ OldWith(new[k]["id"]) = {}
           /\ HasKey(new[k], "subtasks")

\* C4: the merged sequence is as long as the new one and has, at every
\* position, the id of the new task at that position, whatever the old
\* collection holds (nothing included).
C4_LengthAndOrder ==
    Merged =>
        /\ Len(out) = Len(new)
        /\ \A i \in 1..Len(new) : out[i]["id"] = new[i]["id"]

\* two new tasks of different ids, the old collection naming them in the other order
C4_Witness ==
    /\ pc = "done"
    /\ Len(new) = 2 /\ Len(old) = 2
    /\ new[1]["id"] # new[2]["id"]
    /\ old[1]["id"] = new[2]["id"]
    /\ old[2]["id"] = new[1]["id"]

\* the same with nothing in the old collection
C4_WitnessEmptyOld ==
    /\ pc = "done"
    /\ Len(new) = 2 /\ Len(old) = 0
    /\ new[1]["id"] # new[2]["id"]

\* C5: every id of the merged sequence is an id of the new collection, so a
\* task that only the old collection names is not in the output; and such a
\* task is no error: the run fails only on a key that is missing.
C5_OldOnlyDropped ==
    /\ Merged => \A i \in 1..Len(out) : out[i]["id"] \in NewIds
    /\ pc = "failed" =>
           \/ \E j \in 1..Len(old) : ~HasKey(old[j], "id")
           \/ \E k \in 1..Len(new) : ~HasKey(new[k], "id") \/ ~HasKey(new[k], "status")

\* the run succeeded although an old task is named by no new task
C5_Witness ==
    /\ pc = "done"
    /\ Len(new) > 0
    /\ \E j \in 1..Len(old) : old[j]["id"] \notin NewIds
    /\ err = "none"

\* C6: when the ids are unique within each collection and the merge succeeds,
\* merging the merged collection (as the old one) with the same new collection
\* succeeds and gives the merged collection again.
C6_Idempotent ==
    (Merged /\ UniqueIds(old) /\ UniqueIds(new)) =>
        Merge(merged_tasks, new_tasks) = Ok(merged_tasks)

\* a merge that took a status and subtasks from the old collection for one task
\* and from the new collection for another
C6_Witness ==
    /\ pc = "done"
    /\ UniqueIds(old) /\ UniqueIds(new)
    /\ Len(new) = 2
    /\ \E i, k \in 1..2 :
           /\ OldWith(new[i]["id"]) # {}
           /\ out[i]["status"] # new[i]["status"]
           /\ HasKey(new[i], "subtasks")
           /\ out[i]["subtasks"] # new[i]["subtasks"]
           /\ OldWith(new[k]["id"]) = {}

\* some task of the old or of the new collection has no id
LacksId ==
    \/ \E j \in 1..Len(old) : ~HasKey(old[j], "id")
    \/ \E k \in 1..Len(new) : ~HasKey(new[k], "id")

\* C7: when a task of the old or of the new collection has no id, the run
\* never gets past the merge; if it has ended, it ended in a KeyError; the
\* output file is never created or written, not even with the tasks merged
\* before the faulty one; and the success message is never printed.
C7_MissingIdAborts ==
    /\ []((Loaded /\ LacksId) =>
            /\ pc \in {"build_map", "merge", "failed"}
            /\ pc = "failed" => err \in {"KeyError: id", "KeyError: status"}
            /\ outFile \in {NoFile, StaleFile}
            /\ stdout = <<>>)
    /\ [][(Loaded' /\ LacksId') => (outFile' = outFile /\ stdout' = stdout)]_vars

\* the run failed on the second new task, the first one being mergeable, and
\* the output file of an earlier run is still there
C7_Witness ==
    /\ pc = "failed"
    /\ err = "KeyError: id"
    /\ Len(new) = 2
    /\ EntryRaises(existing_tasks_map, new[1]) = "none"
    /\ ~HasKey(new[2], "id")
    /\ outFile = StaleFile

\* C8: every field of a merged entry but status and subtasks has the new task's
\* value, and a merged entry has the new task's fields, status and subtasks,
\* and no other: nothing else comes from the old task.
C8_OtherFieldsFromNew ==
    Merged =>
        \A i \in 1..Len(new) :
            /\ DOMAIN out[i] = DOMAIN new[i] \cup {"status", "subtasks"}
            /\ \A k \in DOMAIN new[i] \ {"status", "subtasks"} : out[i][k] = new[i][k]

\* the old task of that id has a field the new task lacks, and another value
\* for a field both have
C8_Witness ==
    /\ pc = "done"
    /\ \E i \in 1..Len(new) :
           /\ OldWith(new[i]["id"]) # {}
           /\ HasKey(LastOld(new[i]["id"]), "priority")
           /\ ~HasKey(new[i], "priority")
           /\ LastOld(new[i]["id"])["title"] # new[i]["title"]

\* C9: when a task of the new collection has no status, the run never gets
\* past the merge, ends (if it has ended) in a KeyError and leaves the output
\* file and the console alone, also when an old task of the same id has a
\* status.
C9_MissingNewStatusAborts ==
    (Loaded /\ \E k \in 1..Len(new) : ~HasKey(new[k], "status")) =>
        /\ pc \in {"build_map", "merge", "failed"}
        /\ pc = "failed" => err \in {"KeyError: id", "KeyError: status"}
        /\ outFile \in {NoFile, StaleFile}
        /\ stdout = <<>>

\* the run failed on the status of a new task whose old task has a status
C9_Witness ==
    /\ pc = "failed"
    /\ err = "KeyError: status"
    /\ \A j \in 1..Len(old) : HasKey(old[j], "id")
    /\ \E k \in 1..Len(new) :
           /\ HasKey(new[k], "id")
           /\ ~HasKey(new[k], "status")
           /\ OldWith(new[k]["id"]) # {}
           /\ HasKey(LastOld(new[k]["id"]), "status")

\* C10: when several old tasks have the id of a new task, the merged entry
\* has the status and the subtasks of the last of them (where it has them),
\* and taking an earlier one out of the old collection changes nothing.
C10_LastDuplicateWins ==
    Merged =>
        /\ \A i \in 1..Len(new) :
               Cardinality(OldWith(new[i]["id"])) > 1 =>
                   LET last == LastOld(new[i]["id"])
                   IN  /\ HasKey(last, "status") => out[i]["status"] = last["status"]
                       /\ HasKey(last, "subtasks") => out[i]["subtasks"] = last["subtasks"]
        /\ \A j \in 1..Len(old) :
               (\E k \in (j + 1)..Len(old) : old[k]["id"] = old[j]["id"]) =>
                   Merge([tasks |-> Remove(old, j)], new_tasks) = Ok(merged_tasks)

\* two old tasks of one id with different status and subtasks, and a new task of that id
C10_Witness ==
    /\ pc = "done"
    /\ Len(old) = 2
    /\ old[1]["id"] = old[2]["id"]
    /\ HasKey(old[1], "status") /\ HasKey(old[2], "status")
    /\ old[1]["status"] # old[2]["status"]
    /\ \E i \in 1..Len(new) :
           /\ new[i]["id"] = old[2]["id"]
           /\ out[i]["status"] = old[2]["status"]
           /\ out[i]["status"] # old[1]["status"]

====
